---------------------------- MODULE Spec2Model ----------------------------
(***************************************************************************)
(* MelPoW (src/src/melpow): non-interactive proofs of sequential work.     *)
(*                                                                         *)
(* Representation used throughout:                                         *)
(*   - a u64 is the set of the positions of its 1 bits (a subset of        *)
(*     0..63), bit 0 the least significant one;                            *)
(*   - a Node is the record [bv |-> u64, len |-> Nat] of node.rs;          *)
(*   - a byte string is a sequence of numbers in 0..255;                   *)
(*   - a map (FxHashMap) is a TLA+ function, its key set the DOMAIN;       *)
(*   - Option<T> is a sequence: <<>> is None, <<x>> is Some(x).            *)
(* The module melpow::hash is not among the sources.  Its 32-byte digests  *)
(* are modelled as a collision-free function: the variable htab lists the  *)
(* inputs hashed so far and the digest of an input is its position in the  *)
(* list, written as 32 big-endian bytes.  The leading eight bytes of a     *)
(* challenge seed are drawn when the seeds of a puzzle are first asked     *)
(* for, and kept in the variable seed8.                                    *)
(***************************************************************************)
EXTENDS Integers, Sequences, FiniteSets, TLC

(***************************************************************************)
(* Bounds of the model.                                                    *)
(***************************************************************************)
\* largest difficulty given to generate and to verify in Spec
MaxDifficulty == 3
\* number of Fiat-Shamir challenges drawn per proof (the source draws 200)
NumChallenges == 2
\* largest number of entries of a proof map given to the codec
MaxCodecEntries == 3
\* largest depth of the tree calc_labels and get_parents are started with
MaxTreeDepth == 4

(***************************************************************************)
(* Program constants.                                                      *)
(***************************************************************************)
\* width of the u64 holding Node.bv and of the usize holding Node.len
U64_BITS == 64
\* position of the length field inside uniqid
LEN_SHIFT == 56
\* length of a label in the wire format
LABEL_LEN == 32
\* length of an encoded node in the wire format
NODE_LEN == 8
\* the largest difficulty verify does not reject
VERIFY_MAX_DIFFICULTY == 100
\* mod.rs:14; scaled down to the bound NumChallenges
PROOF_CERTAINTY == NumChallenges

VARIABLES
    seed8,        \* hash oracle: <<puzzle, index>> -> first 8 bytes of the seed, as u64,
                  \* for the puzzles whose seeds were asked for
    htab,         \* hash oracle: the inputs hashed so far
    pc,           \* "init", "generated", "verifying", "done", "panicked"
    genPuzzle,    \* the puzzle generate was called with
    genDifficulty,\* the difficulty generate was called with
    proof,        \* the proof map held by the Proof value
    edit,         \* what was done to the proof after generate
    edits,        \* how many entries were changed (0 or 1)
    vPuzzle,      \* verify: argument puzzle
    vDifficulty,  \* verify: argument difficulty
    chi,          \* verify: local chi
    gammas,       \* verify: local gammas
    phi,          \* verify: local phi
    temp_map,     \* verify: local temp_map
    idx,          \* verify: position of the for_each over gammas
    output,       \* verify: local output
    cpc,          \* codec: "idle", "start", "encoded", "crafted", "decoded", "panicked"
    cProof,       \* codec: the proof map to_bytes is called on
    cOrder,       \* codec: the order self.0.iter() yielded the keys in
    cBytes,       \* codec: the byte vector
    cDecoded,     \* codec: what from_bytes returned
    spc,          \* shift: "idle", "rejected", "admitted", "subtracted", "shifted", "panicked"
    sBuild,       \* shift: "debug" (overflow checks on) or "release" (wrapping)
    sDifficulty,  \* shift: the difficulty verify is called with
    sWord,        \* shift: g_int
    sShift,       \* shift: 64 - difficulty, before any wrap
    sGamma,       \* shift: the challenge, where one is produced
    lpc,          \* labeler: "idle", "init", "run", "end", "panicked"
    lN,           \* labeler: argument n of calc_labels
    lChi,         \* labeler: argument chi of calc_labels
    lTab,         \* labeler: the inputs hashed so far
    lStack,       \* labeler: the frames of calc_labels_helper, the innermost last
    lRet,         \* labeler: the label the last finished call returned
    lEll,         \* labeler: the map ell
    lOut,         \* labeler: the calls f(nd, lab) made so far, in order
    npc,          \* get_parents: "idle", "init", "called", "returned"
    nN,           \* get_parents: argument n
    nNode,        \* get_parents: self
    nParents      \* get_parents: the vector returned

povars == <<seed8, htab, pc, genPuzzle, genDifficulty, proof, edit, edits,
            vPuzzle, vDifficulty, chi, gammas, phi, temp_map, idx, output>>

cvars == <<cpc, cProof, cOrder, cBytes, cDecoded>>

svars == <<spc, sBuild, sDifficulty, sWord, sShift, sGamma>>

lvars == <<lpc, lN, lChi, lTab, lStack, lRet, lEll, lOut>>

nvars == <<npc, nN, nNode, nParents>>

vars == <<povars, cvars, svars, lvars, nvars>>

(***************************************************************************)
(* u64 arithmetic on bit-position sets.                                    *)
(***************************************************************************)
\* the 1 bits of a small natural number (a usize that fits 31 bits)
BitsOf(n) == {k \in 0..30 : (n \div (2 ^ k)) % 2 = 1}

RECURSIVE SumPow2(_)
SumPow2(S) == IF S = {} THEN 0
              ELSE LET k == CHOOSE x \in S : TRUE
                   IN (2 ^ k) + SumPow2(S \ {k})

\* x << k and x >> k on 64 bits, for a shift amount k in 0..63
Shl(x, k) == {i + k : i \in {j \in x : j + k < U64_BITS}}
Shr(x, k) == {i - k : i \in {j \in x : j >= k}}

\* u64::reverse_bits
reverse_bits(x) == {U64_BITS - 1 - i : i \in x}

\* u64::to_be_bytes: eight bytes, the most significant first
to_be_bytes(x) ==
    [j \in 1..NODE_LEN |->
        SumPow2({k \in 0..7 : (8 * (NODE_LEN - j) + k) \in x})]

\* u64::from_be_bytes
from_be_bytes(bts) ==
    UNION {{8 * (NODE_LEN - j) + k : k \in BitsOf(bts[j])} : j \in 1..NODE_LEN}

(***************************************************************************)
(* node.rs: Node                                                           *)
(***************************************************************************)
new_zero == [bv |-> {}, len |-> 0]

Node_new(bv, len) == [bv |-> bv, len |-> len]

\* new.bv &= (1 << n) - 1; new.len = n          (n < 64)
take(self, n) == [bv |-> {i \in self.bv : i < n}, len |-> n]

\* nd.bv |= (n << nd.len) as u64; nd.len += 1   (nd.len < 64, n in {0, 1})
append(self, n) ==
    [bv |-> self.bv \cup Shl(BitsOf(n), self.len), len |-> self.len + 1]

\* self.bv >> n & 1
get_bit(self, n) == IF n \in self.bv THEN 1 ELSE 0

\* the indices of 0..n-1 whose bit is set, in increasing order
OneBits(self, n) ==
    SelectSeq([i \in 1..n |-> i - 1], LAMBDA index : get_bit(self, index) # 0)

\* mutant of get_parents: the bits of a leaf are not tested
get_parents_every_bit(self, n) ==
    IF self.len = n
    THEN [k \in 1..n |-> append(take(self, k - 1), 0)]
    ELSE <<append(self, 0), append(self, 1)>>

get_parents(self, n) ==
    IF self.len = n
    THEN LET ones == OneBits(self, n)
         IN [k \in 1..Len(ones) |-> append(take(self, ones[k]), 0)]
    ELSE <<append(self, 0), append(self, 1)>>

\* (self.len << 56) as u64 | self.bv
uniqid(self) == Shl(BitsOf(self.len), LEN_SHIFT) \cup self.bv

Node_to_bytes(self) == to_be_bytes(uniqid(self))

\* mutant of Node_from_bytes: the length field is left in the number
Node_from_bytes_no_mask(bts) ==
    IF Len(bts) # NODE_LEN THEN <<>>
    ELSE LET u == from_be_bytes(bts)
         IN <<[bv |-> u, len |-> SumPow2(Shr(u, LEN_SHIFT))]>>

\* never None on an 8-byte slice: the length field is not validated
Node_from_bytes(bts) ==
    IF Len(bts) # NODE_LEN THEN <<>>
    ELSE LET u == from_be_bytes(bts)
         IN <<[bv |-> Shr(Shl(u, 8), 8), len |-> SumPow2(Shr(u, LEN_SHIFT))]>>

(***************************************************************************)
(* melpow::hash (modelled from its specification)                          *)
(***************************************************************************)
\* the 32-byte digest numbered i
Digest(i) == [j \in 1..LABEL_LEN |-> IF j = LABEL_LEN THEN i ELSE 0]

\* H: the collision-free hash; the result is the digest and the grown table
H(tab, pre) ==
    IF \E i \in 1..Len(tab) : tab[i] = pre
    THEN [tab |-> tab, dig |-> Digest(CHOOSE i \in 1..Len(tab) : tab[i] = pre)]
    ELSE [tab |-> Append(tab, pre), dig |-> Digest(Len(tab) + 1)]

\* the key "chi" as ASCII
KeyChi == <<99, 104, 105>>

\* Hkey(data, key) = H(key || data)
bts_key(tab, data, key) == H(tab, key \o data)

\* Accumulator::new(key), .add(bytes), .hash(): length-prefixed chunks
Accumulator_new(key) == <<Len(key)>> \o key
Accumulator_add(acc, bts) == acc \o <<Len(bts)>> \o bts
Accumulator_hash(tab, acc) == H(tab, acc)

(***************************************************************************)
(* Inputs of the model.                                                    *)
(***************************************************************************)
\* the puzzles of tests::test_simple
Puzzles == {<<>>, <<104, 101, 108, 108, 111>>}

\* leading seed words: the high bits decide the challenge, the low bits
\* are shifted away by gen_gammas
SeedTops == {{}, {0, 2}, {0, 1}}
LowGarbage == {0, 17, 40}
SeedWords == {{U64_BITS - 1 - j : j \in t} \cup LowGarbage : t \in SeedTops}

\* the leading words of the seeds of one puzzle, by challenge index
SeedDraws == [0..(PROOF_CERTAINTY - 1) -> SeedWords]

NoSeeds == [k \in {} |-> {}]

\* the oracle once the seeds of puzzle are fixed: as before where they are
\* known, ws where they are asked for the first time
Asked(oracle, puzzle, ws) ==
    [k \in DOMAIN oracle \cup ({puzzle} \X (0..(PROOF_CERTAINTY - 1))) |->
        IF k \in DOMAIN oracle THEN oracle[k] ELSE ws[k[2]]]

\* the draws that can still be made for puzzle
Draws(oracle, puzzle) ==
    IF <<puzzle, 0>> \in DOMAIN oracle
    THEN {[i \in 0..(PROOF_CERTAINTY - 1) |-> oracle[<<puzzle, i>>]]}
    ELSE SeedDraws

\* u64::from_le_bytes(bts_key(puzzle, "gamma-<index>")[0..8])
g_int_of(oracle, puzzle, index) == oracle[<<puzzle, index>>]

(***************************************************************************)
(* mod.rs: gen_gammas, gamma_to_path                                       *)
(***************************************************************************)
\* line 148: let shift = 64 - difficulty.  The value before any wrap: the
\* usize subtraction overflows when it is negative
shift_sub(difficulty) == U64_BITS - difficulty

\* lines 149-151, for a shift amount in 0..63
gamma_shifted(g_int, amount, difficulty) ==
    Node_new(reverse_bits(Shl(Shr(g_int, amount), amount)), difficulty)

\* one challenge from the leading word of its seed (1 <= difficulty <= 64)
gamma_of(g_int, difficulty) ==
    gamma_shifted(g_int, shift_sub(difficulty), difficulty)

gen_gammas(oracle, puzzle, difficulty) ==
    [k \in 1..PROOF_CERTAINTY |->
        gamma_of(g_int_of(oracle, puzzle, k - 1), difficulty)]

\* mutant of gamma_to_path: the node on the path instead of its sibling
gamma_to_path_on_path(gamma) ==
    [k \in 1..gamma.len |->
        append(take(gamma, k - 1), get_bit(gamma, k - 1))]

gamma_to_path(gamma) ==
    [k \in 1..gamma.len |->
        append(take(gamma, k - 1), 1 - get_bit(gamma, k - 1))]

(***************************************************************************)
(* node.rs: calc_labels.  The result of the helper is the label of nd, the *)
(* sequence of the calls f(nd, lab) it made, in order, and the hash table. *)
(***************************************************************************)
\* the value of F at v, with v computed once
Bind(v, F(_)) == CHOOSE r \in {F(x) : x \in {v}} : TRUE

Insert(m, k, v) == [x \in DOMAIN m \cup {k} |-> IF x = k THEN v ELSE m[x]]

Remove(m, k) == [x \in DOMAIN m \ {k} |-> m[x]]

EmptyMap == [x \in {} |-> <<>>]

\* lab_gen.add(&ell[parent]) for every parent
RECURSIVE AddFrom(_, _, _, _)
AddFrom(acc, parents, labels, k) ==
    IF k > Len(parents) THEN acc
    ELSE Bind(Accumulator_add(acc, labels[parents[k]]),
              LAMBDA a : AddFrom(a, parents, labels, k + 1))

AddAll(acc, parents, labels) == AddFrom(acc, parents, labels, 1)

RECURSIVE calc_labels_helper(_, _, _, _, _)
calc_labels_helper(tab, c, n, nd, ell) ==
    IF nd.len = n
    THEN LET lab_gen == Accumulator_add(Accumulator_new(c), Node_to_bytes(nd))
         IN Bind(Accumulator_hash(tab, AddAll(lab_gen, get_parents(nd, n), ell)),
                 LAMBDA h : [lab |-> h.dig,
                             calls |-> <<[nd |-> nd, lab |-> h.dig]>>,
                             tab |-> h.tab])
    ELSE Bind(calc_labels_helper(tab, c, n, append(nd, 0), ell), LAMBDA left :
         Bind(calc_labels_helper(left.tab, c, n, append(nd, 1),
                                 Insert(ell, append(nd, 0), left.lab)), LAMBDA right :
         Bind(Accumulator_hash(right.tab,
                Accumulator_add(
                  Accumulator_add(
                    Accumulator_add(Accumulator_new(c), Node_to_bytes(nd)),
                    left.lab),
                  right.lab)), LAMBDA h :
              [lab |-> h.dig,
               calls |-> left.calls \o right.calls \o <<[nd |-> nd, lab |-> h.dig]>>,
               tab |-> h.tab])))

calc_labels(tab, c, n) == calc_labels_helper(tab, c, n, new_zero, EmptyMap)

(***************************************************************************)
(* mod.rs: Proof::generate                                                 *)
(***************************************************************************)
\* lines 27-33: the placeholders of the path of a challenge, then its own
RECURSIVE InsertFrom(_, _, _)
InsertFrom(m, keys, k) ==
    IF k > Len(keys) THEN m
    ELSE Bind(Insert(m, keys[k], <<>>), LAMBDA m1 : InsertFrom(m1, keys, k + 1))

RECURSIVE preregisterFrom(_, _, _)
preregisterFrom(m, gs, k) ==
    IF k > Len(gs) THEN m
    ELSE Bind(Insert(InsertFrom(m, gamma_to_path(gs[k]), 1), gs[k], <<>>),
              LAMBDA m1 : preregisterFrom(m1, gs, k + 1))

preregister(gs) == preregisterFrom(EmptyMap, gs, 1)

\* mutant of sink: every label is kept
sink_keep_all(proof_map, nd, lab) == Insert(proof_map, nd, lab)

\* mutant of sink: only the label of the root is stored
sink_only_root(proof_map, nd, lab) ==
    IF nd.len = 0
    THEN Insert(proof_map, nd, lab)
    ELSE proof_map

\* lines 35-39: the closure given to calc_labels
sink(proof_map, nd, lab) ==
    IF nd \in DOMAIN proof_map \/ nd.len = 0
    THEN Insert(proof_map, nd, lab)
    ELSE proof_map

RECURSIVE feedFrom(_, _, _)
feedFrom(proof_map, calls, k) ==
    IF k > Len(calls) THEN proof_map
    ELSE Bind(sink(proof_map, calls[k].nd, calls[k].lab),
              LAMBDA m1 : feedFrom(m1, calls, k + 1))

feed(proof_map, calls) == feedFrom(proof_map, calls, 1)

\* the proof map and the hash table after the call
generate(tab, oracle, puzzle, difficulty) ==
    Bind(bts_key(tab, puzzle, KeyChi), LAMBDA c :
    Bind(gen_gammas(oracle, puzzle, difficulty), LAMBDA gs :
    Bind(calc_labels(c.tab, c.dig, difficulty), LAMBDA labelled :
         [map |-> feed(preregister(gs), labelled.calls),
          tab |-> labelled.tab])))

(***************************************************************************)
(* Specification of prove / edit / verify.                                 *)
(***************************************************************************)
NoEdit == [kind |-> "none", nd |-> new_zero]

\* the codec and the shift computation are not running
CodecIdle ==
    /\ cpc = "idle"
    /\ cProof = EmptyMap
    /\ cOrder = <<>>
    /\ cBytes = <<>>
    /\ cDecoded = <<>>

ShiftIdle ==
    /\ spc = "idle"
    /\ sBuild = "release"
    /\ sDifficulty = 0
    /\ sWord = {}
    /\ sShift = 0
    /\ sGamma = <<>>

\* calc_labels is not running
LabelIdle ==
    /\ lpc = "idle"
    /\ lN = 0
    /\ lChi = <<>>
    /\ lTab = <<>>
    /\ lStack = <<>>
    /\ lRet = <<>>
    /\ lEll = EmptyMap
    /\ lOut = <<>>

\* get_parents is not running
ParentsIdle ==
    /\ npc = "idle"
    /\ nN = 0
    /\ nNode = new_zero
    /\ nParents = <<>>

\* generate and verify are not running
ProverIdle ==
    /\ seed8 = NoSeeds
    /\ htab = <<>>
    /\ pc = "idle"
    /\ genPuzzle = <<>>
    /\ genDifficulty = 0
    /\ proof = EmptyMap
    /\ edit = NoEdit
    /\ edits = 0
    /\ vPuzzle = <<>>
    /\ vDifficulty = 0
    /\ chi = <<>>
    /\ gammas = <<>>
    /\ phi = <<>>
    /\ temp_map = EmptyMap
    /\ idx = 0
    /\ output = TRUE

Init ==
    /\ seed8 = NoSeeds
    /\ htab = <<>>
    /\ pc = "init"
    /\ genPuzzle = <<>>
    /\ genDifficulty = 0
    /\ proof = EmptyMap
    /\ edit = NoEdit
    /\ edits = 0
    /\ vPuzzle = <<>>
    /\ vDifficulty = 0
    /\ chi = <<>>
    /\ gammas = <<>>
    /\ phi = <<>>
    /\ temp_map = EmptyMap
    /\ idx = 0
    /\ output = TRUE
    /\ CodecIdle
    /\ ShiftIdle
    /\ LabelIdle
    /\ ParentsIdle

Generate ==
    /\ pc = "init"
    /\ \E p \in Puzzles, d \in 1..MaxDifficulty : \E ws \in Draws(seed8, p) :
        LET oracle == Asked(seed8, p, ws)
            g == generate(htab, oracle, p, d)
        IN /\ seed8' = oracle
           /\ genPuzzle' = p
           /\ genDifficulty' = d
           /\ proof' = g.map
           /\ htab' = g.tab
    /\ pc' = "generated"
    /\ UNCHANGED <<edit, edits, vPuzzle, vDifficulty, chi, gammas, phi,
                   temp_map, idx, output>>
    /\ UNCHANGED <<cvars, svars, lvars, nvars>>

(***************************************************************************)
(* mod.rs: Proof::verify, one step per iteration of gammas.iter()          *)
(***************************************************************************)
\* lines 68-81: hasher.add(parlab) for each parent, stopping at the first
\* parent the proof does not hold
RECURSIVE add_parents(_, _, _, _)
add_parents(acc, parents, self0, k) ==
    IF k > Len(parents) THEN [acc |-> acc, missing |-> FALSE]
    ELSE IF parents[k] \notin DOMAIN self0 THEN [acc |-> acc, missing |-> TRUE]
    ELSE Bind(Accumulator_add(acc, self0[parents[k]]),
              LAMBDA a : add_parents(a, parents, self0, k + 1))

\* mutant of leaf_check: the recomputed label is not compared
leaf_check_no_compare(tab, c, self0, gamma, difficulty) ==
    Bind(add_parents(Accumulator_add(Accumulator_new(c), Node_to_bytes(gamma)),
                     get_parents(gamma, difficulty), self0, 1), LAMBDA r :
    Bind(Accumulator_hash(tab, r.acc), LAMBDA h :
         [ok |-> ~r.missing, tab |-> h.tab]))

\* lines 65-85: the leaf check; ok is FALSE when output is set to false
leaf_check(tab, c, self0, gamma, difficulty) ==
    Bind(add_parents(Accumulator_add(Accumulator_new(c), Node_to_bytes(gamma)),
                     get_parents(gamma, difficulty), self0, 1), LAMBDA r :
    Bind(Accumulator_hash(tab, r.acc), LAMBDA h :
         [ok |-> ~r.missing /\ h.dig = self0[gamma], tab |-> h.tab]))

\* mutant of fold: the labels of the two children are hashed right first
RECURSIVE fold_swapped(_, _, _, _, _)
fold_swapped(tab, T, c, gamma, index) ==
    IF index < 0 THEN [T |-> T, tab |-> tab, panic |-> FALSE]
    ELSE LET g_l == take(gamma, index)
             g_l_0 == append(take(gamma, index), 0)
             g_l_1 == append(take(gamma, index), 1)
         IN IF g_l_0 \notin DOMAIN T \/ g_l_1 \notin DOMAIN T
            THEN [T |-> T, tab |-> tab, panic |-> TRUE]
            ELSE Bind(Accumulator_hash(tab,
                        Accumulator_add(
                          Accumulator_add(
                            Accumulator_add(Accumulator_new(c), Node_to_bytes(g_l)),
                            T[g_l_1]),
                          T[g_l_0])), LAMBDA h :
                      fold_swapped(h.tab, Insert(T, g_l, h.dig), c, gamma, index - 1))

\* lines 88-96: the fold over (0..difficulty).rev(), from index down to 0;
\* temp_map[&g_l_0] and temp_map[&g_l_1] panic on a key that is absent
RECURSIVE fold(_, _, _, _, _)
fold(tab, T, c, gamma, index) ==
    IF index < 0 THEN [T |-> T, tab |-> tab, panic |-> FALSE]
    ELSE LET g_l == take(gamma, index)
             g_l_0 == append(take(gamma, index), 0)
             g_l_1 == append(take(gamma, index), 1)
         IN IF g_l_0 \notin DOMAIN T \/ g_l_1 \notin DOMAIN T
            THEN [T |-> T, tab |-> tab, panic |-> TRUE]
            ELSE Bind(Accumulator_hash(tab,
                        Accumulator_add(
                          Accumulator_add(
                            Accumulator_add(Accumulator_new(c), Node_to_bytes(g_l)),
                            T[g_l_0]),
                          T[g_l_1])), LAMBDA h :
                      fold(h.tab, Insert(T, g_l, h.dig), c, gamma, index - 1))

\* line 98: phi != self.0[&node::Node::new_zero()].clone()
root_mismatch(phi_, self0, T) == phi_ # self0[new_zero]

\* mutant of verify_chi: the key does not depend on the puzzle
verify_chi_fixed(tab, puzzle) == bts_key(tab, <<>>, KeyChi)

\* line 52: let chi = hash::bts_key(puzzle, b"chi")
verify_chi(tab, puzzle) == bts_key(tab, puzzle, KeyChi)

\* the difficulties verify is called with
VerifyDifficulties == (1..MaxDifficulty) \cup {VERIFY_MAX_DIFFICULTY + 1}

\* the calls of verify: any proof against the puzzle it was generated for, at
\* every difficulty, and the proof as generated against the other puzzles, at
\* the difficulty it was generated with
VerifyCalls ==
    {c \in Puzzles \X VerifyDifficulties :
        \/ c[1] = genPuzzle
        \/ edits = 0 /\ c[2] = genDifficulty}

\* lines 47-56
VerifyStart ==
    /\ pc = "generated"
    /\ \E call \in VerifyCalls :
        LET p == call[1]
            d == call[2]
        IN
        /\ vPuzzle' = p
        /\ vDifficulty' = d
        /\ IF d > VERIFY_MAX_DIFFICULTY
           THEN /\ output' = FALSE
                /\ pc' = "done"
                /\ UNCHANGED <<seed8, htab, chi, gammas, phi, temp_map, idx>>
           ELSE \E ws \in Draws(seed8, p) :
                LET c == verify_chi(htab, p)
                    oracle == Asked(seed8, p, ws)
                IN /\ seed8' = oracle
                   /\ chi' = c.dig
                   /\ htab' = c.tab
                   /\ gammas' = gen_gammas(oracle, p, d)
                   /\ output' = TRUE
                   /\ IF new_zero \in DOMAIN proof
                      THEN /\ phi' = proof[new_zero]
                           /\ temp_map' = proof
                           /\ idx' = 1
                           /\ pc' = "verifying"
                      ELSE /\ pc' = "panicked"
                           /\ UNCHANGED <<phi, temp_map, idx>>
    /\ UNCHANGED <<genPuzzle, genDifficulty, proof, edit, edits>>
    /\ UNCHANGED <<cvars, svars, lvars, nvars>>

\* lines 58-103: the closure body for gammas[idx]
VerifyChallenge ==
    /\ pc = "verifying"
    /\ idx <= Len(gammas)
    /\ LET gamma == gammas[idx]
       IN IF gamma \notin DOMAIN proof
          THEN /\ output' = FALSE
               /\ idx' = idx + 1
               /\ UNCHANGED <<htab, temp_map, pc>>
          ELSE LET lc == leaf_check(htab, chi, proof, gamma, vDifficulty)
                   fd == fold(lc.tab, temp_map, chi, gamma, vDifficulty - 1)
               IN /\ htab' = fd.tab
                  /\ temp_map' = fd.T
                  /\ IF fd.panic
                     THEN /\ pc' = "panicked"
                          /\ output' = (output /\ lc.ok)
                          /\ UNCHANGED idx
                     ELSE /\ output' = (output /\ lc.ok
                                          /\ ~root_mismatch(phi, proof, fd.T))
                          /\ idx' = idx + 1
                          /\ UNCHANGED pc
    /\ UNCHANGED <<seed8, genPuzzle, genDifficulty, proof, edit, edits,
                   vPuzzle, vDifficulty, chi, gammas, phi>>
    /\ UNCHANGED <<cvars, svars, lvars, nvars>>

\* line 106: return output
VerifyReturn ==
    /\ pc = "verifying"
    /\ idx > Len(gammas)
    /\ pc' = "done"
    /\ UNCHANGED <<seed8, htab, genPuzzle, genDifficulty, proof, edit, edits,
                   vPuzzle, vDifficulty, chi, gammas, phi, temp_map, idx, output>>
    /\ UNCHANGED <<cvars, svars, lvars, nvars>>

(***************************************************************************)
(* A proof that reaches verify need not be the one generate returned:      *)
(* Proof::from_bytes builds a Proof from any record stream.                *)
(***************************************************************************)
\* one byte of a label changed
FlipByte(lab) == [lab EXCEPT ![1] = (lab[1] + 128) % 256]

\* the proof decoded from the records of the generated one, one label changed
Tamper ==
    /\ pc = "generated"
    /\ edits = 0
    /\ \E nd \in DOMAIN proof :
        /\ proof' = [proof EXCEPT ![nd] = FlipByte(proof[nd])]
        /\ edit' = [kind |-> "tamper", nd |-> nd]
    /\ edits' = edits + 1
    /\ UNCHANGED <<seed8, htab, pc, genPuzzle, genDifficulty,
                   vPuzzle, vDifficulty, chi, gammas, phi, temp_map, idx, output>>
    /\ UNCHANGED <<cvars, svars, lvars, nvars>>

\* the proof decoded from the records of the generated one, one record dropped
Delete ==
    /\ pc = "generated"
    /\ edits = 0
    /\ \E nd \in DOMAIN proof :
        /\ proof' = Remove(proof, nd)
        /\ edit' = [kind |-> "delete", nd |-> nd]
    /\ edits' = edits + 1
    /\ UNCHANGED <<seed8, htab, pc, genPuzzle, genDifficulty,
                   vPuzzle, vDifficulty, chi, gammas, phi, temp_map, idx, output>>
    /\ UNCHANGED <<cvars, svars, lvars, nvars>>

(***************************************************************************)
(* Properties of generate and verify.                                      *)
(***************************************************************************)
Returned == pc = "done"
Ended == pc \in {"done", "panicked"}
Started == pc \in {"verifying", "done", "panicked"}
Untouched == edits = 0
SamePuzzle == vPuzzle = genPuzzle
SameDifficulty == vDifficulty = genDifficulty

\* C1: completeness.  verify on the proof generate returned, with the same
\* puzzle and the same difficulty, never sets output to false, never aborts,
\* and returns true.
C1_Completeness ==
    (Started /\ Untouched /\ SamePuzzle /\ SameDifficulty)
        => (pc # "panicked" /\ output = TRUE)

C1_Witness ==
    /\ Returned /\ Untouched /\ SamePuzzle /\ SameDifficulty
    /\ genDifficulty >= 2
    /\ gammas[1] # gammas[2]
    /\ output = TRUE

\* C2: a wrong difficulty is rejected.  verify on the proof generate
\* returned for difficulty d, with the same puzzle and a difficulty d' # d
\* in [1, 16], returns false and does not abort.
C2_WrongDifficulty ==
    (Ended /\ Untouched /\ SamePuzzle /\ ~SameDifficulty /\ vDifficulty \in 1..16)
        => (Returned /\ output = FALSE)

\* d' < d, and a challenge of d' is a key of the proof
C2_Witness ==
    /\ Returned /\ Untouched /\ SamePuzzle
    /\ vDifficulty < genDifficulty
    /\ \E i \in 1..Len(gammas) : gammas[i] \in DOMAIN proof
    /\ output = FALSE

\* C3: a wrong puzzle is rejected.  verify on the proof generate returned
\* for puzzle p, with a puzzle p' # p and the same difficulty, returns false
\* and does not abort.
C3_WrongPuzzle ==
    (Ended /\ Untouched /\ ~SamePuzzle /\ SameDifficulty)
        => (Returned /\ output = FALSE)

\* a challenge derived from p' is a key of the proof
C3_Witness ==
    /\ Returned /\ Untouched /\ ~SamePuzzle /\ SameDifficulty
    /\ \E i \in 1..Len(gammas) : gammas[i] \in DOMAIN proof
    /\ output = FALSE

\* C4: tamper detection.  After the stored label of one entry of a generated
\* proof is changed, verify with the same puzzle and difficulty returns false.
C4_TamperDetected ==
    (Ended /\ edits = 1 /\ edit.kind = "tamper" /\ SamePuzzle /\ SameDifficulty)
        => (Returned /\ output = FALSE)

\* an entry deleted from a generated proof is the root or lies on the
\* authentication path of a challenge of the generating call
OnAuthPath(nd) ==
    \E i \in 1..PROOF_CERTAINTY :
        LET g == gen_gammas(seed8, genPuzzle, genDifficulty)[i]
        IN \E j \in 0..(genDifficulty - 1) :
              nd = append(take(g, j), 1 - get_bit(g, j))

\* C5: verify is total.  It never aborts, and on a proof that lacks the root
\* or an authentication-path entry it returns false.
C5_VerifyTotal ==
    /\ pc # "panicked"
    /\ (Returned /\ edits = 1 /\ edit.kind = "delete"
          /\ SamePuzzle /\ SameDifficulty
          /\ (edit.nd = new_zero \/ OnAuthPath(edit.nd)))
        => output = FALSE

\* the key set the proof of (genPuzzle, genDifficulty) is to have
ExpectedKeys ==
    LET gs == gen_gammas(seed8, genPuzzle, genDifficulty)
    IN {new_zero}
         \cup {gs[i] : i \in 1..PROOF_CERTAINTY}
         \cup {append(take(gs[i], j), 1 - get_bit(gs[i], j)) :
                  i \in 1..PROOF_CERTAINTY, j \in 0..(genDifficulty - 1)}

\* C9: proof contents.  The keys of the map generate returns are exactly the
\* root, the challenge leaves and the siblings along each challenge's path.
C9_ProofKeys ==
    (pc # "init" /\ Untouched) => DOMAIN proof = ExpectedKeys

\* two distinct challenges, and nodes of the tree that are not keys
C9_Witness ==
    /\ pc = "generated" /\ Untouched
    /\ genDifficulty >= 2
    /\ Cardinality(DOMAIN proof) < (2 ^ (genDifficulty + 1)) - 1
    /\ \E i, k \in 1..PROOF_CERTAINTY :
          gen_gammas(seed8, genPuzzle, genDifficulty)[i]
            # gen_gammas(seed8, genPuzzle, genDifficulty)[k]

\* C10: root check of the path fold.  Whenever the fold of a challenge has
\* left in the working map a root label that differs from phi, output is
\* false.
C10_RootCheck ==
    (pc \in {"verifying", "done"}
       /\ new_zero \in DOMAIN temp_map
       /\ temp_map[new_zero] # phi)
        => output = FALSE

\* C14: while verify runs on a proof as generate returned it, with the same
\* puzzle and difficulty, the working map agrees with the proof map on
\* every key of the proof map after each challenge: what the fold wrote at a
\* key of the proof is the label the proof stores there.
C14_WorkingMapAgrees ==
    (pc \in {"verifying", "done"} /\ Untouched /\ SamePuzzle /\ SameDifficulty)
        => \A k \in DOMAIN proof :
              k \in DOMAIN temp_map /\ temp_map[k] = proof[k]

\* the fold of one challenge has written an inner node that the proof holds
\* as a sibling on the path of another challenge
C14_Witness ==
    /\ pc = "done"
    /\ Untouched /\ SamePuzzle /\ SameDifficulty
    /\ \E k \in DOMAIN proof : \E i \in 1..Len(gammas) :
          /\ k.len > 0
          /\ k.len < vDifficulty
          /\ take(gammas[i], k.len) = k

Next ==
    \/ Generate
    \/ Tamper
    \/ Delete
    \/ VerifyStart
    \/ VerifyChallenge
    \/ VerifyReturn

Spec == Init /\ [][Next]_vars

(***************************************************************************)
(* mod.rs: Proof::to_bytes, Proof::from_bytes                              *)
(***************************************************************************)
\* let unit_size = 8 + 32
unit_size == NODE_LEN + LABEL_LEN

\* lines 114-118, the keys visited in the order self.0.iter() yields them;
\* assert_eq!(value.len(), 32) panics on a label that is not 32 bytes long
RECURSIVE to_bytes_from(_, _, _, _)
to_bytes_from(out, self0, order, k) ==
    IF k > Len(order) THEN [panic |-> FALSE, out |-> out]
    ELSE IF Len(self0[order[k]]) # LABEL_LEN THEN [panic |-> TRUE, out |-> out]
    ELSE Bind(out \o Node_to_bytes(order[k]) \o self0[order[k]],
              LAMBDA o : to_bytes_from(o, self0, order, k + 1))

to_bytes(self0, order) == to_bytes_from(<<>>, self0, order, 1)

\* lines 131-136, bts being the input from offset off on
RECURSIVE from_bytes_loop(_, _, _)
from_bytes_loop(omap, bts, off) ==
    IF off >= Len(bts) THEN <<omap>>
    ELSE LET nd == Node_from_bytes(SubSeq(bts, off + 1, off + NODE_LEN))
             lab == SubSeq(bts, off + NODE_LEN + 1, off + unit_size)
         IN IF Len(nd) = 0 THEN <<>>
            ELSE Bind(Insert(omap, nd[1], lab),
                      LAMBDA m : from_bytes_loop(m, bts, off + unit_size))

from_bytes(bts) ==
    IF Len(bts) % unit_size # 0 THEN <<>> ELSE from_bytes_loop(EmptyMap, bts, 0)

\* the orders a hash map may be iterated in
Orders(S) ==
    {f \in [1..Cardinality(S) -> S] :
        \A i, j \in 1..Cardinality(S) : f[i] = f[j] => i = j}

\* nodes of proofs: of a tree, of the largest length the wire format holds,
\* and one as from_bytes reads it from a record
CodecNodes ==
    {new_zero, Node_new({}, 1), Node_new({0}, 1), Node_new({0, 2}, 3),
     Node_new({55}, LEN_SHIFT), Node_new({0, 55}, LEN_SHIFT), Node_new({3}, 200)}

CodecLabels == {Digest(1), [j \in 1..LABEL_LEN |-> 256 - j]}

CodecProofs ==
    UNION {[S -> CodecLabels] :
              S \in {T \in SUBSET CodecNodes : Cardinality(T) <= MaxCodecEntries}}

\* byte vectors that no to_bytes produced
CraftIds ==
    {<<57, 0, 0, 0, 0, 0, 0, 1>>,
     <<255, 255, 255, 255, 255, 255, 255, 255>>,
     <<3, 0, 0, 0, 0, 0, 0, 5>>,
     <<1, 0, 0, 0, 0, 0, 0, 2>>}

CraftRecords == {id \o Digest(1) : id \in CraftIds}

CraftedBytes ==
    {<<>>}
      \cup CraftRecords
      \cup {r1 \o r2 : r1 \in CraftRecords, r2 \in CraftRecords}
      \cup {SubSeq(r, 1, unit_size - 1) : r \in CraftRecords}
      \cup {SubSeq(r, 1, NODE_LEN) : r \in CraftRecords}

CodecInit ==
    /\ ProverIdle
    /\ ShiftIdle
    /\ LabelIdle
    /\ ParentsIdle
    /\ cpc = "start"
    /\ cProof \in CodecProofs
    /\ cOrder = <<>>
    /\ cBytes = <<>>
    /\ cDecoded = <<>>

\* proof.to_bytes()
Encode ==
    /\ cpc = "start"
    /\ \E order \in Orders(DOMAIN cProof) :
        LET r == to_bytes(cProof, order)
        IN /\ cOrder' = order
           /\ cBytes' = r.out
           /\ cpc' = IF r.panic THEN "panicked" ELSE "encoded"
    /\ UNCHANGED <<cProof, cDecoded>>
    /\ UNCHANGED <<povars, svars, lvars, nvars>>

\* a byte vector from elsewhere
Craft ==
    /\ cpc = "start"
    /\ cProof = EmptyMap
    /\ cBytes' \in CraftedBytes
    /\ cpc' = "crafted"
    /\ UNCHANGED <<cProof, cOrder, cDecoded>>
    /\ UNCHANGED <<povars, svars, lvars, nvars>>

\* Proof::from_bytes(&bytes)
Decode ==
    /\ cpc \in {"encoded", "crafted"}
    /\ cDecoded' = from_bytes(cBytes)
    /\ cpc' = IF cpc = "encoded" THEN "roundtrip" ELSE "decoded"
    /\ UNCHANGED <<cProof, cOrder, cBytes>>
    /\ UNCHANGED <<povars, svars, lvars, nvars>>

CodecNext ==
    \/ Encode
    \/ Craft
    \/ Decode

SpecCodec == CodecInit /\ [][CodecNext]_vars

C7_MalformedNodeRejected ==
    (/\ cpc = "decoded"
     /\ Len(cBytes) % unit_size = 0
     /\ \E k \in 0..((Len(cBytes) \div unit_size) - 1) :
           cBytes[unit_size * k + 1] \notin 0..LEN_SHIFT)
        => Len(cDecoded) = 0

(***************************************************************************)
(* mod.rs: the shift of gen_gammas as verify reaches it.  A debug build    *)
(* panics on arithmetic overflow; a release build wraps the subtraction    *)
(* and masks the shift amount to the width of the word.                    *)
(***************************************************************************)
Builds == {"debug", "release"}

ShiftDifficulties == 0..(VERIFY_MAX_DIFFICULTY + 2)

\* the amount a release build shifts by: the wrapped usize, masked
shift_amount(shift) == (shift + 2 * U64_BITS) % U64_BITS

\* whether g_int >> shift overflows: the amount is not in 0..63
shift_overflows(shift) == shift < 0 \/ shift >= U64_BITS

ShiftInit ==
    /\ ProverIdle
    /\ CodecIdle
    /\ ShiftIdle
    /\ LabelIdle
    /\ ParentsIdle

\* verify, lines 49-53
ShiftCall ==
    /\ spc = "idle"
    /\ \E d \in ShiftDifficulties, w \in SeedWords, b \in Builds :
        /\ sDifficulty' = d
        /\ sWord' = w
        /\ sBuild' = b
        /\ spc' = IF d > VERIFY_MAX_DIFFICULTY THEN "rejected" ELSE "admitted"
    /\ UNCHANGED <<sShift, sGamma>>
    /\ UNCHANGED <<povars, cvars, lvars, nvars>>

\* gen_gammas, line 148
ShiftSubtract ==
    /\ spc = "admitted"
    /\ sShift' = shift_sub(sDifficulty)
    /\ spc' = IF shift_sub(sDifficulty) < 0 /\ sBuild = "debug"
              THEN "panicked" ELSE "subtracted"
    /\ UNCHANGED <<sBuild, sDifficulty, sWord, sGamma>>
    /\ UNCHANGED <<povars, cvars, lvars, nvars>>

\* gen_gammas, lines 149-151
ShiftApply ==
    /\ spc = "subtracted"
    /\ IF shift_overflows(sShift) /\ sBuild = "debug"
       THEN /\ spc' = "panicked"
            /\ UNCHANGED sGamma
       ELSE /\ spc' = "shifted"
            /\ sGamma' = <<gamma_shifted(sWord, shift_amount(sShift), sDifficulty)>>
    /\ UNCHANGED <<sBuild, sDifficulty, sWord, sShift>>
    /\ UNCHANGED <<povars, cvars, lvars, nvars>>

ShiftNext ==
    \/ ShiftCall
    \/ ShiftSubtract
    \/ ShiftApply

SpecShift == ShiftInit /\ [][ShiftNext]_vars

\* C8: for every difficulty verify does not reject, the shift 64 - N of
\* gen_gammas is at least 0 and less than 64, and neither the subtraction
\* nor the shift overflows.
C8_ShiftInRange ==
    (spc \in {"subtracted", "shifted", "panicked"})
        => (/\ sShift >= 0
            /\ sShift < U64_BITS
            /\ spc # "panicked")

(***************************************************************************)
(* node.rs: calc_labels, one step per stretch of calc_labels_helper        *)
(* between two calls, returns or calls of f.  A frame is the node of one   *)
(* activation, where it stands ("enter": at line 120; "left": in the call  *)
(* of line 132; "right": from the insert of line 133 up to the remove of   *)
(* line 136) and its local l0.                                             *)
(***************************************************************************)
\* the depths calc_labels is started with
TreeDepths == 0..MaxTreeDepth

\* the nodes of the binary tree of depth n
TreeNodes(n) ==
    {[bv |-> b, len |-> l] : <<b, l>> \in
        {x \in (SUBSET (0..(n - 1))) \X (0..n) : \A i \in x[1] : i < x[2]}}

Frame(nd, at, l0) == [nd |-> nd, at |-> at, l0 |-> l0]

\* mutant of emit: the call is put before the earlier ones
emit_first(out, nd, lab) == <<[nd |-> nd, lab |-> lab]>> \o out

\* lines 124 and 145: f(nd, &lab)
emit(out, nd, lab) == Append(out, [nd |-> nd, lab |-> lab])

\* line 133: ell.insert(nd.append(0), l0.clone())
ell_insert(ell, nd, l0) == Insert(ell, append(nd, 0), l0)

\* mutant of ell_remove: the entry stays
ell_remove_nothing(ell, nd) == ell

\* line 136: ell.remove(&nd.append(0))
ell_remove(ell, nd) == Remove(ell, append(nd, 0))

\* lines 121-123 and 129: the label of a leaf; &ell[parent] panics on a
\* parent that is not in ell
leaf_label(tab, c, nd, n, ell) ==
    IF \E k \in 1..Len(get_parents(nd, n)) : get_parents(nd, n)[k] \notin DOMAIN ell
    THEN [panic |-> TRUE, tab |-> tab, dig |-> <<>>]
    ELSE Bind(Accumulator_hash(tab,
                AddAll(Accumulator_add(Accumulator_new(c), Node_to_bytes(nd)),
                       get_parents(nd, n), ell)),
              LAMBDA h : [panic |-> FALSE, tab |-> h.tab, dig |-> h.dig])

\* lines 138-142: the label of an inner node
inner_label(tab, c, nd, l0, l1) ==
    Accumulator_hash(tab,
        Accumulator_add(
          Accumulator_add(
            Accumulator_add(Accumulator_new(c), Node_to_bytes(nd)), l0), l1))

Top == lStack[Len(lStack)]
Popped == SubSeq(lStack, 1, Len(lStack) - 1)
Replaced(fr) == [lStack EXCEPT ![Len(lStack)] = fr]

LabelInit ==
    /\ ProverIdle
    /\ CodecIdle
    /\ ShiftIdle
    /\ ParentsIdle
    /\ lpc = "init"
    /\ lN = 0
    /\ lChi = <<>>
    /\ lTab = <<>>
    /\ lStack = <<>>
    /\ lRet = <<>>
    /\ lEll = EmptyMap
    /\ lOut = <<>>

\* lines 109-111: calc_labels(chi, n, f), chi as generate computes it
LabelCall ==
    /\ lpc = "init"
    /\ \E p \in Puzzles, n \in TreeDepths :
        LET c == bts_key(<<>>, p, KeyChi)
        IN /\ lChi' = c.dig
           /\ lTab' = c.tab
           /\ lN' = n
    /\ lStack' = <<Frame(new_zero, "enter", <<>>)>>
    /\ lpc' = "run"
    /\ UNCHANGED <<lRet, lEll, lOut>>
    /\ UNCHANGED <<povars, cvars, svars, nvars>>

\* lines 120 and 132: not a leaf, the call for the left child
LabelDescend ==
    /\ lpc = "run"
    /\ Top.at = "enter"
    /\ Top.nd.len # lN
    /\ lStack' = Append(Replaced(Frame(Top.nd, "left", <<>>)),
                        Frame(append(Top.nd, 0), "enter", <<>>))
    /\ UNCHANGED <<lpc, lN, lChi, lTab, lRet, lEll, lOut>>
    /\ UNCHANGED <<povars, cvars, svars, nvars>>

\* lines 120-131: a leaf
LabelLeaf ==
    /\ lpc = "run"
    /\ Top.at = "enter"
    /\ Top.nd.len = lN
    /\ LET h == leaf_label(lTab, lChi, Top.nd, lN, lEll)
       IN IF h.panic
          THEN /\ lpc' = "panicked"
               /\ UNCHANGED <<lTab, lStack, lRet, lOut>>
          ELSE /\ lTab' = h.tab
               /\ lOut' = emit(lOut, Top.nd, h.dig)
               /\ lRet' = h.dig
               /\ lStack' = Popped
               /\ lpc' = IF Len(lStack) = 1 THEN "end" ELSE "run"
    /\ UNCHANGED <<lN, lChi, lEll>>
    /\ UNCHANGED <<povars, cvars, svars, nvars>>

\* lines 132-135: the left call has returned l0; the call for the right child
LabelRight ==
    /\ lpc = "run"
    /\ Top.at = "left"
    /\ lEll' = ell_insert(lEll, Top.nd, lRet)
    /\ lStack' = Append(Replaced(Frame(Top.nd, "right", lRet)),
                        Frame(append(Top.nd, 1), "enter", <<>>))
    /\ UNCHANGED <<lpc, lN, lChi, lTab, lRet, lOut>>
    /\ UNCHANGED <<povars, cvars, svars, nvars>>

\* lines 135-147: the right call has returned l1
LabelFinish ==
    /\ lpc = "run"
    /\ Top.at = "right"
    /\ lEll' = ell_remove(lEll, Top.nd)
    /\ LET h == inner_label(lTab, lChi, Top.nd, Top.l0, lRet)
       IN /\ lTab' = h.tab
          /\ lOut' = emit(lOut, Top.nd, h.dig)
          /\ lRet' = h.dig
    /\ lStack' = Popped
    /\ lpc' = IF Len(lStack) = 1 THEN "end" ELSE "run"
    /\ UNCHANGED <<lN, lChi>>
    /\ UNCHANGED <<povars, cvars, svars, nvars>>

LabelNext ==
    \/ LabelCall
    \/ LabelDescend
    \/ LabelLeaf
    \/ LabelRight
    \/ LabelFinish

SpecLabel == LabelInit /\ [][LabelNext]_vars

\* w is v or lies under v
Under(v, w) == w.len >= v.len /\ take(w, v.len) = v

Emitted(j) == lOut[j].nd

\* the step-by-step traversal makes the calls the recursive definition makes
calc_labels_agree ==
    lpc = "end" => lOut = calc_labels(<<lTab[1]>>, lChi, lN).calls

\* C11: calc_labels calls the sink once for each of the 2^(N+1) - 1 nodes
\* of the depth-N tree and for no other node, in post-order: a node comes
\* after every node under it, the left subtree of a node comes before its
\* right subtree, and the root comes last.
C11_PostOrder ==
    LET tree == TreeNodes(lN)
        before(j) == {Emitted(i) : i \in 1..(j - 1)}
        below(v) == {w \in tree : Under(v, w)} \ {v}
    IN
    /\ lpc # "panicked"
    /\ lpc \in {"run", "end"} =>
        /\ \A j \in 1..Len(lOut) : Emitted(j) \in tree
        /\ \A j \in 1..Len(lOut) : Emitted(j) \notin before(j)
        /\ \A j \in 1..Len(lOut) : below(Emitted(j)) \subseteq before(j)
        /\ \A i, j \in 1..Len(lOut) : \A d \in 0..(lN - 1) :
              (/\ Under(append(take(Emitted(i), d), 0), Emitted(i))
               /\ Under(append(take(Emitted(i), d), 1), Emitted(j)))
                  => i < j
    /\ lpc = "end" =>
        /\ {Emitted(j) : j \in 1..Len(lOut)} = tree
        /\ Len(lOut) = 2 ^ (lN + 1) - 1
        /\ Emitted(Len(lOut)) = new_zero

\* a finished traversal of the tree of depth 3
C11_Witness ==
    /\ lpc = "end"
    /\ lN = 3
    /\ Len(lOut) = 15

\* the frames from the insert of line 133 up to the remove of line 136
RightOpen == {k \in 1..Len(lStack) : lStack[k].at = "right"}

\* C12: at every point of the traversal the keys of ell are exactly the left
\* children of the nodes on the recursion path whose right subtree is
\* entered and not finished, at most N of them; ell holds every parent of a
\* leaf when the leaf is labelled, and is empty when the traversal ends.
C12_EllInvariant ==
    /\ lpc # "panicked"
    /\ lpc \in {"run", "end"} =>
        /\ DOMAIN lEll = {append(lStack[k].nd, 0) : k \in RightOpen}
        /\ \A k \in RightOpen : lEll[append(lStack[k].nd, 0)] = lStack[k].l0
        /\ Cardinality(DOMAIN lEll) <= lN
    /\ (lpc = "run" /\ Top.at = "enter" /\ Top.nd.len = lN) =>
        \A k \in 1..Len(get_parents(Top.nd, lN)) :
            get_parents(Top.nd, lN)[k] \in DOMAIN lEll
    /\ lpc = "end" => lEll = EmptyMap

\* the rightmost leaf of the tree of depth 3 is about to be labelled: ell
\* holds N entries, all of them parents of the leaf
C12_Witness ==
    /\ lpc = "run"
    /\ lN = 3
    /\ Top.at = "enter"
    /\ Top.nd = [bv |-> {0, 1, 2}, len |-> 3]
    /\ Cardinality(DOMAIN lEll) = 3
    /\ Len(get_parents(Top.nd, lN)) = 3

(***************************************************************************)
(* node.rs: Node::get_parents on the nodes of a tree.                      *)
(***************************************************************************)
\* nodes of the largest length the id of a node has room for
DeepNodes ==
    {[bv |-> {0, LEN_SHIFT - 1}, len |-> LEN_SHIFT],
     [bv |-> 0..(LEN_SHIFT - 1), len |-> LEN_SHIFT],
     [bv |-> {LEN_SHIFT - 2}, len |-> LEN_SHIFT - 1]}

\* n and a well-formed node of length at most n
ParentInputs ==
    {x \in TreeDepths \X TreeNodes(MaxTreeDepth) : x[2].len <= x[1]}
        \cup ({LEN_SHIFT} \X DeepNodes)

ParentsInit ==
    /\ ProverIdle
    /\ CodecIdle
    /\ ShiftIdle
    /\ LabelIdle
    /\ npc = "init"
    /\ nN = 0
    /\ nNode = new_zero
    /\ nParents = <<>>

\* line 43: the call self.get_parents(n)
ParentsCall ==
    /\ npc = "init"
    /\ \E x \in ParentInputs :
        /\ nN' = x[1]
        /\ nNode' = x[2]
    /\ npc' = "called"
    /\ UNCHANGED nParents
    /\ UNCHANGED <<povars, cvars, svars, lvars>>

\* lines 44-58
ParentsReturn ==
    /\ npc = "called"
    /\ nParents' = get_parents(nNode, nN)
    /\ npc' = "returned"
    /\ UNCHANGED <<nN, nNode>>
    /\ UNCHANGED <<povars, cvars, svars, lvars>>

ParentsNext ==
    \/ ParentsCall
    \/ ParentsReturn

SpecParents == ParentsInit /\ [][ParentsNext]_vars

\* C13: for a well-formed node v with v.len <= N, get_parents(N) is
\* [v.append(0), v.append(1)] when v.len < N; when v.len = N it is, in
\* increasing order of i, the nodes v.take(i).append(0) for the positions i
\* in [0, N) where bit i of v.bv is 1, as many as v.bv has 1 bits.
C13_Parents ==
    npc = "returned" =>
        IF nNode.len < nN
        THEN nParents = <<append(nNode, 0), append(nNode, 1)>>
        ELSE LET ones == {i \in 0..(nN - 1) : i \in nNode.bv}
                 rank(i) == Cardinality({j \in ones : j < i}) + 1
             IN /\ Len(nParents) = Cardinality(ones)
                /\ Len(nParents) = Cardinality(nNode.bv)
                /\ \A i \in ones :
                      nParents[rank(i)] =
                          [bv |-> {j \in nNode.bv : j < i}, len |-> i + 1]

\* a leaf with two 1 bits and a 0 bit between them, and an inner node
C13_Witness ==
    /\ npc = "returned"
    /\ nN = 3
    /\ nNode = [bv |-> {0, 2}, len |-> 3]
    /\ nParents = <<[bv |-> {}, len |-> 1], [bv |-> {0}, len |-> 3]>>

(***************************************************************************)
(* Proof::generate followed by Proof::to_bytes.                            *)
(***************************************************************************)
\* one order in which self.0.iter() can yield the keys
RECURSIVE OrderOf(_)
OrderOf(S) ==
    IF S = {} THEN <<>>
    ELSE LET x == CHOOSE y \in S : TRUE
         IN <<x>> \o OrderOf(S \ {x})

\* C15: every key generate registers with an empty placeholder, each
\* challenge and each sibling on its path, is a node of the tree of depth N
\* and is overwritten by the sink: every entry of the returned proof holds a
\* 32-byte label and the assertion of to_bytes does not fail on it.
C15_NoPlaceholder ==
    (pc # "init" /\ Untouched) =>
        /\ DOMAIN preregister(gen_gammas(seed8, genPuzzle, genDifficulty))
              \subseteq TreeNodes(genDifficulty)
        /\ \A k \in DOMAIN proof : Len(proof[k]) = LABEL_LEN
        /\ ~to_bytes(proof, OrderOf(DOMAIN proof)).panic

\* a proof of depth 3 with two different challenges, serialised in full
C15_Witness ==
    /\ pc = "generated"
    /\ Untouched
    /\ genDifficulty = 3
    /\ gen_gammas(seed8, genPuzzle, genDifficulty)[1]
          # gen_gammas(seed8, genPuzzle, genDifficulty)[2]
    /\ Cardinality(DOMAIN proof) >= 6
    /\ Len(to_bytes(proof, OrderOf(DOMAIN proof)).out)
          = unit_size * Cardinality(DOMAIN proof)

=============================================================================
